---- MODULE Spec2Model ----
(***************************************************************************)
(* Model of the conversational-assistant backend:                         *)
(*   src/models/Conversation.js  the Conversation document and its methods *)
(*   src/models/User.js          the User document and its methods         *)
(*   src/unnamed/part_000        the /api/conversation routes              *)
(*   src/routes/ai.js            the /api/ai routes                        *)
(*   src/routes/user.js          the /api/user routes                      *)
(*                                                                         *)
(* The specifications share the variables and the definitions:             *)
(*   SpecConversation  one Conversation document: addMessage and           *)
(*                     getContextMessages, each save awaited               *)
(*   SpecLifecycle     one Conversation document and every operation       *)
(*                     that writes it                                      *)
(*   SpecTitle         generateTitle                                       *)
(*   SpecDuration      calculateDuration                                   *)
(*   SpecListing       getUserConversations over stored conversations      *)
(*   SpecSearch        searchConversations over stored conversations       *)
(*   SpecRoutes        the conversation routes over the stored             *)
(*                     conversations                                       *)
(*   SpecOwner         the conversation routes that write                  *)
(*   SpecCounters      POST /api/conversation requests that overlap        *)
(*   SpecAi            the ai routes, with the saves they start and do     *)
(*                     not await                                           *)
(*   SpecAppends       ai requests that append to one conversation         *)
(*                     and overlap                                         *)
(*   SpecStats         updateStats on one user                             *)
(*   SpecRegister      registrations that interleave, logins, health       *)
(*   SpecUser          the token-bearing user routes over stored users     *)
(***************************************************************************)
EXTENDS Integers, Sequences, FiniteSets, TLC

\* ------------------------------------------------------------------ bounds
MaxMsgs == 3        \* messages one conversation holds at most in the model
MaxTime == 2        \* the clock runs 0..MaxTime
MaxCount == 3       \* a counter of a user counts to MaxCount at most in the model

\* --------------------------------------------------------- program constants
DefaultContextLimit == 10   \* getContextMessages(limit = 10)

VARIABLES
    now,        \* the clock (Date.now())
    doc,        \* SpecConversation: the Conversation document under test
    ret,        \* SpecConversation: what the last method call returned
    convs,      \* stored conversations, ConvIds -> document or NoDoc
    reqs,       \* SpecAi: the ai requests in flight, ReqIds -> request state
    res,        \* the response the last step sent, NoRes when it sent none
    users,      \* stored users
    saves,      \* the saves of user documents started and not awaited
    regs        \* SpecRegister: the registrations in flight

vars == <<now, doc, ret, convs, reqs, res, users, saves, regs>>

Min(a, b) == IF a < b THEN a ELSE b
Max(a, b) == IF a > b THEN a ELSE b

\* ------------------------------------------------------------------ values
UserIds == {"u1", "u2"}
MsgTypes == {"user", "ai"}                  \* messageSchema.type enum
ContentTypes == {"text", "voice"}           \* the content types the routes append
Contents == {"hi"}
Statuses == {"active", "archived", "deleted"}

\* this.messages.filter(m => m.type === type).length
CountType(messages, type) ==
    Cardinality({i \in DOMAIN messages : messages[i].type = type})

\* this.messages.filter(m => m.contentType === contentType).length
CountContentType(messages, contentType) ==
    Cardinality({i \in DOMAIN messages : messages[i].contentType = contentType})

\* A message as messageSchema casts messageData pushed at time t: the
\* timestamp defaults to Date.now.
CastMessage(messageData, t) ==
    [type |-> messageData.type,
     content |-> messageData.content,
     contentType |-> messageData.contentType,
     timestamp |-> t]

ZeroStats == [totalMessages |-> 0, userMessages |-> 0, aiMessages |-> 0, voiceMessages |-> 0]

\* new Conversation({userId, title}) at time t: the schema's defaults.
NewConversation(userId, title, t) ==
    [userId |-> userId,
     title |-> title,
     messages |-> <<>>,
     stats |-> ZeroStats,
     status |-> "active",
     isFavorite |-> FALSE,
     tags |-> <<>>,
     lastMessageAt |-> t]

\* ------------------------------------------------ Conversation document

\* RecomputedStats with the filter on the type left out of userMessages.
RecomputedStatsNoFilter(messages) ==
    [totalMessages |-> Len(messages),
     userMessages |-> Len(messages),
     aiMessages |-> CountType(messages, "ai"),
     voiceMessages |-> CountContentType(messages, "voice")]

\* stats as the pre-save hook recomputes them from the messages.
RecomputedStats(messages) ==
    [totalMessages |-> Len(messages),
     userMessages |-> CountType(messages, "user"),
     aiMessages |-> CountType(messages, "ai"),
     voiceMessages |-> CountContentType(messages, "voice")]

\* LastTimestamp with the hook's assignment left out: lastMessageAt stays
\* what addMessage set it to.
LastTimestampKept(d) == d.lastMessageAt

\* lastMessageAt as the pre-save hook sets it (d.lastMessageAt when there are no messages).
LastTimestamp(d) ==
    IF Len(d.messages) > 0 THEN d.messages[Len(d.messages)].timestamp
    ELSE d.lastMessageAt

\* conversationSchema.pre('save'): d is the document, modified tells whether
\* isModified('messages').
PreSave(d, modified) ==
    IF modified
    THEN [d EXCEPT !.stats = RecomputedStats(d.messages),
                   !.lastMessageAt = LastTimestamp(d)]
    ELSE d

\* PushMessage that puts the new message first (unshift for push).
PushMessageFront(d, messageData, tPush, tSet) ==
    [d EXCEPT !.messages = <<CastMessage(messageData, tPush)>> \o d.messages,
              !.lastMessageAt = tSet]

\* addMessage up to the save: the push at time tPush, then lastMessageAt = new Date()
\* at time tSet. The document is modified in memory only.
PushMessage(d, messageData, tPush, tSet) ==
    [d EXCEPT !.messages = Append(d.messages, CastMessage(messageData, tPush)),
              !.lastMessageAt = tSet]

\* addMessage, its save awaited.
AddMessageDoc(d, messageData, tPush, tSet) ==
    PreSave(PushMessage(d, messageData, tPush, tSet), TRUE)

\* Array.prototype.slice(start) on a sequence.
Slice(s, start) ==
    LET k == IF start < 0 THEN Max(Len(s) + start, 0) ELSE Min(start, Len(s))
    IN SubSeq(s, k + 1, Len(s))

\* getContextMessages(limit): this.messages.slice(-limit).
GetContextMessages(d, limit) == Slice(d.messages, 0 - limit)

\* generateTitle: the longest content returned whole.
TitleLimit == 50

\* GenerateTitle that takes the first message, whoever wrote it.
GenerateTitleOfFirst(d) ==
    IF d.messages = <<>> THEN "New Conversation"
    ELSE LET content == d.messages[1].content
         IN IF Len(content) > TitleLimit
            THEN SubSeq(content, 1, TitleLimit) \o "..."
            ELSE content

\* generateTitle(): messages.find(m => m.type === 'user'), its content cut.
GenerateTitle(d) ==
    LET fromUser == {i \in 1 .. Len(d.messages) : d.messages[i].type = "user"}
    IN IF fromUser = {} THEN "New Conversation"
       ELSE LET first == CHOOSE i \in fromUser : \A j \in fromUser : i <= j
                content == d.messages[first].content
            IN IF Len(content) > TitleLimit
               THEN SubSeq(content, 1, TitleLimit) \o "..."
               ELSE content

\* calculateDuration: milliseconds in a second.
MsPerSecond == 1000

\* CalculateDuration that takes the second message for the last one.
CalculateDurationOfSecond(d) ==
    IF Len(d.messages) < 2 THEN [seconds |-> 0, thousandths |-> 0]
    ELSE LET elapsed == d.messages[2].timestamp - d.messages[1].timestamp
         IN [seconds |-> elapsed \div MsPerSecond, thousandths |-> elapsed % MsPerSecond]

\* calculateDuration(): (last.timestamp - first.timestamp) / 1000, a number
\* of seconds that need not be whole: its whole seconds and the thousandths
\* that remain (timestamps are in milliseconds and do not decrease along
\* the messages).
CalculateDuration(d) ==
    IF Len(d.messages) < 2 THEN [seconds |-> 0, thousandths |-> 0]
    ELSE LET elapsed == d.messages[Len(d.messages)].timestamp - d.messages[1].timestamp
         IN [seconds |-> elapsed \div MsPerSecond, thousandths |-> elapsed % MsPerSecond]

\* archive / delete / restore / toggleFavorite, the save awaited; the messages
\* are not modified, so the pre-save hook leaves the stats alone.
ArchiveDoc(d) == PreSave([d EXCEPT !.status = "archived"], FALSE)

\* DeleteDoc that also drops the messages.
DeleteDocDropping(d) ==
    PreSave([d EXCEPT !.status = "deleted", !.messages = <<>>], FALSE)

DeleteDoc(d) == PreSave([d EXCEPT !.status = "deleted"], FALSE)

\* RestoreDoc that only undoes an archive.
RestoreDocGuarded(d) ==
    IF d.status = "archived" THEN PreSave([d EXCEPT !.status = "active"], FALSE) ELSE d

RestoreDoc(d) == PreSave([d EXCEPT !.status = "active"], FALSE)
ToggleFavoriteDoc(d) == PreSave([d EXCEPT !.isFavorite = ~d.isFavorite], FALSE)

\* ---------------------------------------------------------------- idle values
\* What the variables a specification does not use stay at.
NoDoc == [userId |-> "none"]
NoRet == [op |-> "none", limit |-> 0, value |-> <<>>]

\* =========================================================================
\* SpecConversation: one document, its methods called one after the other
\* =========================================================================
Limits == (0 .. MaxMsgs + 1) \cup {DefaultContextLimit}

MessageData == [type : MsgTypes, content : Contents, contentType : ContentTypes]

OtherVarsConversation == <<convs, reqs, res, users, saves, regs>>

\* The clock advances.
Tick ==
    /\ now < MaxTime
    /\ now' = now + 1
    /\ UNCHANGED <<doc, ret, convs, reqs, res, users, saves, regs>>

\* conversation.addMessage(messageData), awaited. The clock may advance
\* between the push (the timestamp's default) and new Date().
AddMessage ==
    /\ Len(doc.messages) < MaxMsgs
    /\ \E messageData \in MessageData, tSet \in now .. Min(now + 1, MaxTime) :
          /\ doc' = AddMessageDoc(doc, messageData, now, tSet)
          /\ now' = tSet
    /\ ret' = [op |-> "addMessage", limit |-> 0, value |-> <<>>]
    /\ UNCHANGED OtherVarsConversation

\* conversation.getContextMessages(limit)
GetContext ==
    /\ \E limit \in Limits :
          ret' = [op |-> "getContextMessages", limit |-> limit,
                  value |-> GetContextMessages(doc, limit)]
    /\ UNCHANGED <<now, doc>>
    /\ UNCHANGED OtherVarsConversation

\* =========================================================================
\* The conversation routes and the ai routes over the stored documents
\* =========================================================================
ConvIds == {"c1", "c2"}
ReqIds == {1}

\* What a request carries as its Authorization header: none, a token that
\* jwt.verify rejects (malformed, wrong signature, expired), or a valid
\* token, which names the user it was signed for.
Tokens == {"none", "bad"} \cup UserIds

\* bcrypt.hash(password, salt): a one-way image of the plaintext.
Hash(password) == "$2a$12$" \o password

\* bcrypt.compare(candidate, stored)
ComparePassword(stored, candidate) == stored = Hash(candidate)

\* UserPreSave without the isModified('password') test: every save hashes.
UserPreSaveAlways(user, passwordModified) == [user EXCEPT !.password = Hash(@)]

\* userSchema.pre('save'): the password is hashed when it was modified.
UserPreSave(user, passwordModified) ==
    IF passwordModified THEN [user EXCEPT !.password = Hash(@)] ELSE user

ZeroUserStats ==
    [conversations |-> 0, messages |-> 0, voiceInteractions |-> 0, totalUsageTime |-> 0]

\* new User({username, email, password}) at time t, before its save: the
\* schema's defaults. theme stands for the preferences.
NewUser(username, email, password, t) ==
    [username |-> username, email |-> email, password |-> password,
     isActive |-> TRUE, theme |-> "dark", stats |-> ZeroUserStats, lastActive |-> t]

NoUser == [absent |-> TRUE]

\* The account user id u registered, saved at time 0.
RegisteredUser(u) ==
    UserPreSave(NewUser(IF u = "u1" THEN "ann" ELSE "bob",
                        IF u = "u1" THEN "ann@x.io" ELSE "bob@x.io",
                        "secret1", 0), TRUE)

\* A response: the route and the request's token and id, the HTTP status,
\* whether the body carries success: true, its error, and the conversation
\* or the list of conversation ids it carries; status is the status filter
\* of a listing's query; was records the status the conversation had when a
\* status route loaded it; username, email and password are those of the
\* body of a registration or a login; body is the set of the names of the
\* fields of the JSON object sent.
NoRes == [route |-> "none", token |-> "none", id |-> "none", code |-> 0,
          success |-> FALSE, error |-> "none", conversation |-> NoDoc,
          status |-> "none", conversations |-> <<>>, was |-> "none",
          username |-> "none", email |-> "none", password |-> "none",
          body |-> {}]

\* res.status(code).json({ error }): the body carries no success field.
ErrorRes(route, token, id, code, error) ==
    [NoRes EXCEPT !.route = route, !.token = token, !.id = id, !.code = code,
                  !.error = error, !.body = {"error"}]

\* res.status(code).json({ success: true, ... })
OkRes(route, token, id, code, conversation, conversations) ==
    [NoRes EXCEPT !.route = route, !.token = token, !.id = id, !.code = code,
                  !.success = TRUE, !.conversation = conversation,
                  !.conversations = conversations, !.body = {"success", "message"}]

\* authenticateUser: the middleware of the conversation and ai routes.
AuthenticateUser(store, token) ==
    IF token = "none"
    THEN [code |-> 401, error |-> "Authentication required", user |-> "none"]
    ELSE IF token = "bad"
    THEN [code |-> 401, error |-> "Invalid token", user |-> "none"]
    ELSE IF token \notin DOMAIN store \/ store[token] = NoUser
    THEN [code |-> 401, error |-> "User not found", user |-> "none"]
    ELSE [code |-> 200, error |-> "none", user |-> token]

\* The conversation routes after findById: 404 when there is no such
\* document, 403 when the caller does not own it.
CheckOwner(store, id, user) ==
    IF store[id] = NoDoc
    THEN [code |-> 404, error |-> "Conversation not found"]
    ELSE IF store[id].userId # user
    THEN [code |-> 403, error |-> "Access denied"]
    ELSE [code |-> 200, error |-> "none"]

\* The ai routes after findById: one test, one answer for both cases.
CheckOwnerAi(store, id, user) ==
    IF store[id] = NoDoc \/ store[id].userId # user
    THEN [code |-> 404, error |-> "Conversation not found"]
    ELSE [code |-> 200, error |-> "none"]

\* The ids no stored document and no document being inserted has.
FreeIds == {c \in DOMAIN convs : /\ convs[c] = NoDoc
                                  /\ \A r \in DOMAIN reqs : reqs[r].id # c}

\* The _id a new document gets.
NewId == CHOOSE c \in FreeIds : \A d \in FreeIds : c = "c1" \/ d # "c1"

NoSave == [kind |-> "none"]
IdleReq == [pc |-> "idle", route |-> "none", token |-> "none", id |-> "none",
            local |-> NoDoc, saving |-> NoSave, text |-> "none", stats |-> ZeroUserStats]

\* A step that sends an error and changes nothing stored.
Reject(response) ==
    /\ res' = response
    /\ UNCHANGED <<now, doc, ret, convs, reqs, users, saves, regs>>

\* user.updateStats(type, increment): the counter named by type.
\* StatsField whose 'voice' case lacks its break and falls into 'usage'.
StatsFieldFallThrough(type) ==
    IF type = "conversation" THEN "conversations"
    ELSE IF type = "message" THEN "messages"
    ELSE IF type = "voice" THEN "totalUsageTime"
    ELSE IF type = "usage" THEN "totalUsageTime"
    ELSE "none"

StatsField(type) ==
    IF type = "conversation" THEN "conversations"
    ELSE IF type = "message" THEN "messages"
    ELSE IF type = "voice" THEN "voiceInteractions"
    ELSE IF type = "usage" THEN "totalUsageTime"
    ELSE "none"

\* updateStats(type, increment = 1): the increment used when none is given.
DefaultIncrement == 1

\* user.updateStats(type, increment) on the stats of a user document.
StatsAfter(stats, type, increment) ==
    LET field == StatsField(type)
    IN IF field = "none" THEN stats ELSE [stats EXCEPT ![field] = @ + increment]

\* req.user.updateStats(type, increment), not awaited: the counter is
\* raised on the user document the request loaded (stats) and a save that
\* sets it is started.
UpdateStatsSave(user, stats, type, increment) ==
    LET field == StatsField(type)
    IN IF field = "none" THEN [user |-> user, set |-> <<>>]
       ELSE [user |-> user, set |-> (field :> stats[field] + increment)]

\* The save of a user document reaches the store: $set of the paths it
\* modified (counters of stats, lastActive).
CommitUserSave(store, save) ==
    [store EXCEPT
       ![save.user] =
          [@ EXCEPT !.stats = [f \in DOMAIN @ |->
                                 IF f \in DOMAIN save.set THEN save.set[f] ELSE @[f]],
                    !.lastActive = IF "lastActive" \in DOMAIN save.set
                                   THEN save.set["lastActive"] ELSE @]]

\* The save of a conversation document reaches the store: an insert of the
\* new document, or an update that pushes the new messages and sets the
\* paths the pre-save hook wrote.
CommitSave(store, id, save) ==
    IF save.kind = "insert"
    THEN [store EXCEPT ![id] = save.doc]
    ELSE [store EXCEPT ![id] =
            [@ EXCEPT !.messages = @ \o save.push,
                      !.stats = save.doc.stats,
                      !.lastMessageAt = save.doc.lastMessageAt]]

\* All orders of the elements of S.
Orders(S) ==
    {f \in [1 .. Cardinality(S) -> S] : \A i, j \in DOMAIN f : i # j => f[i] # f[j]}

\* .skip(skip).limit(limit) of a sequence; a limit of 0 is no limit.
SkipLimit(s, skip, limit) ==
    IF limit = 0
    THEN SubSeq(s, skip + 1, Len(s))
    ELSE SubSeq(s, skip + 1, Min(Len(s), skip + limit))

DefaultListLimit == 20

\* Conversation.getUserConversations(userId, {status, limit, skip, sortOrder}),
\* sorted by lastMessageAt: the results the query can give (the store may
\* return documents with equal sort keys in either order).
GetUserConversations(store, userId, status, limit, skip, sortOrder) ==
    LET found == {c \in DOMAIN store : /\ store[c] # NoDoc
                                        /\ store[c].userId = userId
                                        /\ store[c].status = status}
        sorted == {f \in Orders(found) :
                     \A i, j \in DOMAIN f :
                       i < j => IF sortOrder = "desc"
                                THEN store[f[i]].lastMessageAt >= store[f[j]].lastMessageAt
                                ELSE store[f[i]].lastMessageAt <= store[f[j]].lastMessageAt}
    IN {SkipLimit(f, skip, limit) : f \in sorted}

\* The character at position i of a string.
CharAt(s, i) == SubSeq(s, i, i)

\* The lower-case form of a character, as the i option of a regular
\* expression compares them (the letters the model's texts use).
Lower(c) ==
    CASE c = "H" -> "h"
      [] c = "I" -> "i"
      [] c = "K" -> "k"
      [] c = "E" -> "e"
      [] OTHER -> c

\* new RegExp(pattern, 'i') matches text from position k on: a '.' of the
\* pattern matches any character, another character matches itself in
\* either case (the patterns of the model use no other operator).
RegexMatchesAt(pattern, text, k) ==
    /\ k + Len(pattern) - 1 <= Len(text)
    /\ \A i \in 1 .. Len(pattern) :
          \/ CharAt(pattern, i) = "."
          \/ Lower(CharAt(pattern, i)) = Lower(CharAt(text, k + i - 1))

\* { $regex: pattern, $options: 'i' }: the pattern matches somewhere in text.
RegexTest(pattern, text) ==
    \E k \in 1 .. Len(text) : RegexMatchesAt(pattern, text, k)

\* Conversation.searchConversations(userId, searchTerm, {limit, skip}): the
\* results the query can give.
SearchConversations(store, userId, searchTerm, limit, skip) ==
    LET found == {c \in DOMAIN store :
                     /\ store[c] # NoDoc
                     /\ store[c].userId = userId
                     /\ store[c].status = "active"
                     /\ \/ RegexTest(searchTerm, store[c].title)
                        \/ \E i \in 1 .. Len(store[c].messages) :
                              RegexTest(searchTerm, store[c].messages[i].content)
                        \/ \E i \in 1 .. Len(store[c].tags) :
                              RegexTest(searchTerm, store[c].tags[i])}
        sorted == {f \in Orders(found) :
                     \A i, j \in DOMAIN f :
                       i < j => store[f[i]].lastMessageAt >= store[f[j]].lastMessageAt}
    IN {SkipLimit(f, skip, limit) : f \in sorted}

\* ---------------------------------------------------- conversation routes

\* GET /api/conversation: the listing, status 'active' unless the query names one.
ListStatuses == Statuses \cup {"absent"}

ListConversations ==
    \E token \in Tokens, status \in ListStatuses :
        LET auth == AuthenticateUser(users, token)
            filter == IF status = "absent" THEN "active" ELSE status
        IN IF auth.code # 200
           THEN Reject(ErrorRes("list", token, "none", auth.code, auth.error))
           ELSE /\ \E list \in GetUserConversations(convs, auth.user, filter,
                                                    DefaultListLimit, 0, "desc") :
                      res' = [OkRes("list", token, "none", 200, NoDoc, list)
                                EXCEPT !.status = status]
                /\ UNCHANGED <<now, doc, ret, convs, reqs, users, saves, regs>>

\* A read of one conversation by id: GET /:id, GET /:id/stats, GET /:id/export.
ReadRoutes == {"get", "stats", "export"}

ReadConversation ==
    \E route \in ReadRoutes, token \in Tokens, id \in ConvIds :
        LET auth == AuthenticateUser(users, token)
            own == CheckOwner(convs, id, auth.user)
        IN IF auth.code # 200
           THEN Reject(ErrorRes(route, token, id, auth.code, auth.error))
           ELSE IF own.code # 200
           THEN Reject(ErrorRes(route, token, id, own.code, own.error))
           ELSE /\ res' = OkRes(route, token, id, 200, convs[id], <<>>)
                /\ UNCHANGED <<now, doc, ret, convs, reqs, users, saves, regs>>

\* POST /api/conversation: the document is saved (awaited), the user's
\* counter is raised by a save that is not awaited.
Titles == {"absent", "Plans"}

CreateConversation ==
    \E token \in Tokens, title \in Titles :
        LET auth == AuthenticateUser(users, token)
            created == NewConversation(auth.user,
                          IF title = "absent" THEN "New Conversation" ELSE title, now)
        IN IF auth.code # 200
           THEN Reject(ErrorRes("create", token, "none", auth.code, auth.error))
           ELSE /\ FreeIds # {}
                /\ convs' = [convs EXCEPT ![NewId] = PreSave(created, FALSE)]
                /\ saves' = saves \cup
                     {UpdateStatsSave(auth.user, users[auth.user].stats, "conversation", 1)}
                /\ res' = OkRes("create", token, NewId, 201, created, <<>>)
                /\ UNCHANGED <<now, doc, ret, reqs, users, regs>>

\* PUT /api/conversation/:id: findByIdAndUpdate with $set of the fields the
\* body gives (no save hook runs).
\* The body may carry fields the handler does not read, userId among them.
UpdateBodies ==
    [title : {"absent", "Trip"}, tags : {<<>>}, hasTags : {FALSE},
     isFavorite : {"absent"}, userId : {"absent"}]
      \cup [title : {"absent"}, tags : {<<>>}, hasTags : {FALSE},
            isFavorite : {"true", "false"}, userId : {"absent"}]
      \cup [title : {"Trip"}, tags : {<<>>}, hasTags : {FALSE},
            isFavorite : {"absent"}, userId : {"u2"}]

\* ApplyUpdate that sets every field of the body ($set: req.body).
ApplyUpdateWholeBody(d, body) ==
    [d EXCEPT !.title = IF body.title # "absent" THEN body.title ELSE @,
              !.tags = IF body.hasTags THEN body.tags ELSE @,
              !.isFavorite = IF body.isFavorite # "absent"
                             THEN body.isFavorite = "true" ELSE @,
              !.userId = IF body.userId # "absent" THEN body.userId ELSE @]

ApplyUpdate(d, body) ==
    [d EXCEPT !.title = IF body.title # "absent" THEN body.title ELSE @,
              !.tags = IF body.hasTags THEN body.tags ELSE @,
              !.isFavorite = IF body.isFavorite # "absent"
                             THEN body.isFavorite = "true" ELSE @]

UpdateConversation ==
    \E token \in Tokens, id \in ConvIds, body \in UpdateBodies :
        LET auth == AuthenticateUser(users, token)
            own == CheckOwner(convs, id, auth.user)
        IN IF auth.code # 200
           THEN Reject(ErrorRes("update", token, id, auth.code, auth.error))
           ELSE IF own.code # 200
           THEN Reject(ErrorRes("update", token, id, own.code, own.error))
           ELSE /\ convs' = [convs EXCEPT ![id] = ApplyUpdate(@, body)]
                /\ res' = OkRes("update", token, id, 200, convs'[id], <<>>)
                /\ UNCHANGED <<now, doc, ret, reqs, users, saves, regs>>

\* What the method a route calls does to the document it loaded.
MethodOf(route, d) ==
    IF route = "archive" THEN ArchiveDoc(d)
    ELSE IF route = "delete" THEN DeleteDoc(d)
    ELSE IF route = "restore" THEN RestoreDoc(d)
    ELSE ToggleFavoriteDoc(d)

\* PUT /:id/archive, DELETE /:id, PUT /:id/restore, PUT /:id/favorite: find,
\* check the owner, call the method (its save awaited), answer.
MethodRoute(route) ==
    \E token \in Tokens, id \in ConvIds :
        LET auth == AuthenticateUser(users, token)
            own == CheckOwner(convs, id, auth.user)
        IN IF auth.code # 200
           THEN Reject(ErrorRes(route, token, id, auth.code, auth.error))
           ELSE IF own.code # 200
           THEN Reject(ErrorRes(route, token, id, own.code, own.error))
           ELSE /\ convs' = [convs EXCEPT ![id] = MethodOf(route, @)]
                /\ res' = [OkRes(route, token, id, 200, NoDoc, <<>>)
                            EXCEPT !.was = convs[id].status]
                /\ UNCHANGED <<now, doc, ret, reqs, users, saves, regs>>

ArchiveConversation == MethodRoute("archive")
DeleteConversation == MethodRoute("delete")
RestoreConversation == MethodRoute("restore")
FavoriteConversation == MethodRoute("favorite")

\* ------------------------------------------------------------ ai routes

\* The message a request body carries: "" stands for a missing or blank one.
TextInputs == {"", "hi"}
\* The audioData of a request body: "" stands for a missing one.
AudioInputs == {"", "audio"}
\* What transcribeAudio returns (one of its sample transcriptions).
Transcriptions == {"hello"}
\* What processWithLocalAI returns (one of its canned responses).
Replies == {"re1", "re2"}

\* message.substring(0, 50) + (message.length > 50 ? '...' : ''), for the
\* messages of the model, which are shorter than 50 characters.
TitleOfMessage(message) == message

\* The first half of POST /process-text and /process-voice, up to the await
\* of processWithLocalAI: the conversation is found or made, the user
\* message is pushed and its save is started and not awaited.
AiStart(r, route, token, text, convId, contentType) ==
    LET auth == AuthenticateUser(users, token)
        own == CheckOwnerAi(convs, convId, auth.user)
        isNew == convId = "none"
        id == IF isNew THEN NewId ELSE convId
        loaded == IF isNew
                  THEN NewConversation(auth.user, TitleOfMessage(text), now)
                  ELSE convs[convId]
        messageData == [type |-> "user", content |-> text, contentType |-> contentType]
        pushed == PushMessage(loaded, messageData, now, now)
        saved == PreSave(pushed, TRUE)
    IN IF auth.code # 200
       THEN Reject(ErrorRes(route, token, convId, auth.code, auth.error))
       ELSE IF text = ""
       THEN Reject(ErrorRes(route, token, convId, 400,
                            IF route = "process-text" THEN "Message is required"
                            ELSE "Audio data is required"))
       ELSE IF ~isNew /\ own.code # 200
       THEN Reject(ErrorRes(route, token, convId, own.code, own.error))
       ELSE /\ isNew => FreeIds # {}
            /\ Len(loaded.messages) + 2 <= MaxMsgs
            /\ reqs' = [reqs EXCEPT ![r] =
                 [pc |-> "ai", route |-> route, token |-> token, id |-> id,
                  local |-> saved, text |-> text, stats |-> users[auth.user].stats,
                  saving |-> [kind |-> IF isNew THEN "insert" ELSE "update",
                              doc |-> saved,
                              push |-> <<CastMessage(messageData, now)>>]]]
            /\ res' = NoRes
            /\ UNCHANGED <<now, doc, ret, convs, users, saves, regs>>

ProcessTextStart ==
    \E r \in ReqIds, token \in Tokens, message \in TextInputs,
       convId \in ConvIds \cup {"none"} :
        /\ reqs[r].pc = "idle"
        /\ AiStart(r, "process-text", token, message, convId, "text")

ProcessVoiceStart ==
    \E r \in ReqIds, token \in Tokens, audioData \in AudioInputs,
       convId \in ConvIds \cup {"none"} :
        /\ reqs[r].pc = "idle"
        /\ \E transcribedText \in Transcriptions :
              AiStart(r, "process-voice", token,
                      IF audioData = "" THEN "" ELSE transcribedText, convId, "voice")

\* The paths the updateStats calls of a request modified and their values:
\* the save of the user document sets them all.
StatsSaveOf(route, user, stats) ==
    LET first == UpdateStatsSave(user, stats, "message", 2)
        second == UpdateStatsSave(user, stats, "voice", 1)
    IN IF route = "process-voice"
       THEN [user |-> user, set |-> first.set @@ second.set]
       ELSE first

\* The second half, after processWithLocalAI has returned: the reply is
\* pushed and its save is started and not awaited, the user's counters are
\* raised (not awaited), and the response is sent. A save of the same
\* document that is still running makes the second save() reject
\* (ParallelSaveError): the reply is then never written.
AiReply ==
    \E r \in DOMAIN reqs, reply \in Replies :
        LET q == reqs[r]
            messageData == [type |-> "ai", content |-> reply, contentType |-> "text"]
            pushed == PushMessage(q.local, messageData, now, now)
            saved == PreSave(pushed, TRUE)
            running == q.saving.kind # "none"
            next == IF running
                    THEN [q EXCEPT !.pc = "sent", !.local = pushed]
                    ELSE [q EXCEPT !.pc = "sent", !.local = saved,
                                   !.saving = [kind |-> "update", doc |-> saved,
                                               push |-> <<CastMessage(messageData, now)>>]]
        IN /\ q.pc = "ai"
           /\ reqs' = [reqs EXCEPT ![r] = next]
           /\ saves' = saves \cup {StatsSaveOf(q.route, q.token, q.stats)}
           /\ res' = OkRes(q.route, q.token, q.id, 200, pushed, <<>>)
           /\ UNCHANGED <<now, doc, ret, convs, users, regs>>

\* A save of a conversation document that a request started reaches the store.
SaveCommit ==
    \E r \in DOMAIN reqs :
        LET q == reqs[r]
        IN /\ q.saving.kind # "none"
           /\ convs' = CommitSave(convs, q.id, q.saving)
           /\ reqs' = [reqs EXCEPT ![r] =
                 IF q.pc = "sent" THEN IdleReq ELSE [q EXCEPT !.saving = NoSave]]
           /\ res' = NoRes
           /\ UNCHANGED <<now, doc, ret, users, saves, regs>>

\* A save of a user document that a request started reaches the store.
UserSaveCommit ==
    \E save \in saves :
        /\ users' = CommitUserSave(users, save)
        /\ saves' = saves \ {save}
        /\ res' = NoRes
        /\ UNCHANGED <<now, doc, ret, convs, reqs, regs>>

\* =========================================================================
\* The user routes
\* =========================================================================
RegIds == {1, 2}

\* What the bodies of the user routes carry: "" stands for a missing field.
Usernames == {"", "ann", "bob"}
Emails == {"", "ann@x.io", "bob@x.io"}
Passwords == {"", "abc", "secret1"}

MinPasswordLength == 6

IdleReg == [pc |-> "idle", username |-> "none", email |-> "none", password |-> "none"]

\* A response of a user route: ErrorRes or OkRes with the body's fields.
WithBody(response, username, email, password) ==
    [response EXCEPT !.username = username, !.email = email, !.password = password]

\* User.findOne({ $or: [{ email }, { username }] }) finds a user; the unique
\* indexes of userSchema reject an insert under the same condition.
UserExists(store, username, email) ==
    \E u \in DOMAIN store :
        /\ store[u] # NoUser
        /\ (store[u].email = email \/ store[u].username = username)

FreeUserIds == {u \in UserIds : users[u] = NoUser}
NewUserId == CHOOSE u \in FreeUserIds : \A v \in FreeUserIds : u = "u1" \/ v # "u1"

\* POST /register up to the await of user.save(): the body is validated
\* and an existing user with the email or the username is looked for.
RegisterStart ==
    \E g \in RegIds, username \in Usernames, email \in Emails, password \in Passwords :
        /\ regs[g].pc = "idle"
        /\ IF username = "" \/ email = "" \/ password = ""
           THEN Reject(WithBody(ErrorRes("register", "none", "none", 400,
                                         "All fields are required"),
                                username, email, password))
           ELSE IF Len(password) < MinPasswordLength
           THEN Reject(WithBody(ErrorRes("register", "none", "none", 400,
                                         "Password must be at least 6 characters"),
                                username, email, password))
           ELSE IF UserExists(users, username, email)
           THEN Reject(WithBody(ErrorRes("register", "none", "none", 400,
                                         "User already exists"),
                                username, email, password))
           ELSE /\ regs' = [regs EXCEPT ![g] = [pc |-> "saving", username |-> username,
                                                email |-> email, password |-> password]]
                /\ res' = NoRes
                /\ UNCHANGED <<now, doc, ret, convs, reqs, users, saves>>

\* The user.save() of a registration and the answer: the insert is rejected
\* by a unique index (the catch answers 500) or stores the user, its
\* password hashed by the pre-save hook.
RegisterSave ==
    \E g \in RegIds :
        LET q == regs[g]
            created == UserPreSave(NewUser(q.username, q.email, q.password, now), TRUE)
        IN /\ q.pc = "saving"
           /\ regs' = [regs EXCEPT ![g] = IdleReg]
           /\ IF UserExists(users, q.username, q.email)
              THEN /\ res' = WithBody(ErrorRes("register", "none", "none", 500,
                                               "Failed to register user"),
                                      q.username, q.email, q.password)
                   /\ UNCHANGED users
              ELSE /\ FreeUserIds # {}
                   /\ users' = [users EXCEPT ![NewUserId] = created]
                   /\ res' = WithBody(OkRes("register", NewUserId, "none", 201, NoDoc, <<>>),
                                      q.username, q.email, q.password)
           /\ UNCHANGED <<now, doc, ret, convs, reqs, saves>>

\* User.findByCredentials(email, password): the user, or the reason it throws.
FindByCredentials(store, email, password) ==
    LET found == {u \in DOMAIN store : store[u] # NoUser /\ store[u].email = email}
    IN IF found = {}
       THEN [user |-> "none", error |-> "Invalid login credentials"]
       ELSE LET u == CHOOSE u \in found : TRUE
            IN IF ~ComparePassword(store[u].password, password)
               THEN [user |-> "none", error |-> "Invalid login credentials"]
               ELSE [user |-> u, error |-> "none"]

\* LoginOutcome that tells a caller that no account has the email.
LoginOutcomeTelling(store, email, password) ==
    IF email = "" \/ password = ""
    THEN [code |-> 400, error |-> "Email and password are required", user |-> "none"]
    ELSE IF ~\E u \in DOMAIN store : store[u] # NoUser /\ store[u].email = email
    THEN [code |-> 404, error |-> "User not found", user |-> "none"]
    ELSE LET found == FindByCredentials(store, email, password)
         IN IF found.error # "none"
            THEN [code |-> 401, error |-> "Invalid credentials", user |-> "none"]
            ELSE [code |-> 200, error |-> "none", user |-> found.user]

\* POST /login: what the handler answers; its catch turns whatever
\* findByCredentials throws into 401 'Invalid credentials'.
LoginOutcome(store, email, password) ==
    IF email = "" \/ password = ""
    THEN [code |-> 400, error |-> "Email and password are required", user |-> "none"]
    ELSE LET found == FindByCredentials(store, email, password)
         IN IF found.error # "none"
            THEN [code |-> 401, error |-> "Invalid credentials", user |-> "none"]
            ELSE [code |-> 200, error |-> "none", user |-> found.user]

LoginPasswords == {"", "secret1", "secret2"}

\* POST /login; on success the save of lastActive is started and not awaited.
Login ==
    \E email \in Emails, password \in LoginPasswords :
        LET out == LoginOutcome(users, email, password)
        IN IF out.code # 200
           THEN Reject(WithBody(ErrorRes("login", "none", "none", out.code, out.error),
                                "none", email, password))
           ELSE /\ saves' = saves \cup {[user |-> out.user, set |-> ("lastActive" :> now)]}
                /\ res' = WithBody(OkRes("login", out.user, "none", 200, NoDoc, <<>>),
                                   "none", email, password)
                /\ UNCHANGED <<now, doc, ret, convs, reqs, users, regs>>

\* The token-bearing user routes check the token inline: no header is
\* answered 401, a token jwt.verify rejects throws into the handler's catch,
\* whose answer is the route's own, and a token of no stored user is 404.
CatchOf(route) ==
    IF route = "profile" THEN [code |-> 401, error |-> "Invalid token"]
    ELSE IF route = "updateProfile" THEN [code |-> 500, error |-> "Failed to update profile"]
    ELSE IF route = "preferences" THEN [code |-> 500, error |-> "Failed to update preferences"]
    ELSE IF route = "userStats" THEN [code |-> 500, error |-> "Failed to get stats"]
    ELSE IF route = "account" THEN [code |-> 500, error |-> "Failed to delete account"]
    ELSE [code |-> 500, error |-> "Failed to change password"]

VerifyToken(store, route, token) ==
    IF token = "none"
    THEN [code |-> 401, error |-> "Authentication required", user |-> "none"]
    ELSE IF token = "bad"
    THEN [code |-> CatchOf(route).code, error |-> CatchOf(route).error, user |-> "none"]
    ELSE IF store[token] = NoUser
    THEN [code |-> 404, error |-> "User not found", user |-> "none"]
    ELSE [code |-> 200, error |-> "none", user |-> token]

UserReadRoutes == {"profile", "userStats"}

\* GET /profile and GET /stats
ReadUser ==
    \E route \in UserReadRoutes, token \in Tokens :
        LET auth == VerifyToken(users, route, token)
        IN IF auth.code # 200
           THEN Reject(ErrorRes(route, token, "none", auth.code, auth.error))
           ELSE Reject(OkRes(route, token, "none", 200, NoDoc, <<>>))

NewUsernames == {"", "bob", "cat"}
NewEmails == {"", "bob@x.io", "cat@x.io"}

\* PUT /profile: a new username or email is refused when another user has
\* it; the update is one findByIdAndUpdate.
UpdateProfile ==
    \E token \in Tokens, username \in NewUsernames, email \in NewEmails :
        LET auth == VerifyToken(users, "updateProfile", token)
            user == users[auth.user]
            setName == username # "" /\ username # user.username
            setEmail == email # "" /\ email # user.email
        IN IF auth.code # 200
           THEN Reject(WithBody(ErrorRes("updateProfile", token, "none", auth.code, auth.error),
                                username, email, "none"))
           ELSE IF setName /\ \E u \in UserIds : users[u] # NoUser /\ users[u].username = username
           THEN Reject(WithBody(ErrorRes("updateProfile", token, "none", 400,
                                         "Username already taken"), username, email, "none"))
           ELSE IF setEmail /\ \E u \in UserIds : users[u] # NoUser /\ users[u].email = email
           THEN Reject(WithBody(ErrorRes("updateProfile", token, "none", 400,
                                         "Email already taken"), username, email, "none"))
           ELSE /\ users' = [users EXCEPT ![auth.user] =
                                [user EXCEPT !.username = IF setName THEN username ELSE @,
                                             !.email = IF setEmail THEN email ELSE @]]
                /\ res' = WithBody(OkRes("updateProfile", token, "none", 200, NoDoc, <<>>),
                                   username, email, "none")
                /\ UNCHANGED <<now, doc, ret, convs, reqs, saves, regs>>

Themes == {"", "light"}

\* PUT /preferences: the preferences of the body that are present are set.
UpdatePreferences ==
    \E token \in Tokens, theme \in Themes :
        LET auth == VerifyToken(users, "preferences", token)
        IN IF auth.code # 200
           THEN Reject(ErrorRes("preferences", token, "none", auth.code, auth.error))
           ELSE /\ users' = [users EXCEPT ![auth.user].theme = IF theme # "" THEN theme ELSE @]
                /\ res' = OkRes("preferences", token, "none", 200, NoDoc, <<>>)
                /\ UNCHANGED <<now, doc, ret, convs, reqs, saves, regs>>

\* DELETE /account: the account is deactivated, its record kept.
DeleteAccount ==
    \E token \in Tokens :
        LET auth == VerifyToken(users, "account", token)
        IN IF auth.code # 200
           THEN Reject(ErrorRes("account", token, "none", auth.code, auth.error))
           ELSE /\ users' = [users EXCEPT ![auth.user] =
                                UserPreSave([@ EXCEPT !.isActive = FALSE], FALSE)]
                /\ res' = OkRes("account", token, "none", 200, NoDoc, <<>>)
                /\ UNCHANGED <<now, doc, ret, convs, reqs, saves, regs>>

CurrentPasswords == {"", "secret1", "secret2"}
NewPasswords == {"", "abc", "secret2"}

\* PUT /password: the current password is verified, the new one saved hashed.
ChangePassword ==
    \E token \in Tokens, currentPassword \in CurrentPasswords, newPassword \in NewPasswords :
        LET auth == VerifyToken(users, "password", token)
            user == users[auth.user]
        IN IF auth.code # 200
           THEN Reject(WithBody(ErrorRes("password", token, "none", auth.code, auth.error),
                                "none", "none", newPassword))
           ELSE IF currentPassword = "" \/ newPassword = ""
           THEN Reject(WithBody(ErrorRes("password", token, "none", 400,
                                         "Current and new password are required"),
                                "none", "none", newPassword))
           ELSE IF Len(newPassword) < MinPasswordLength
           THEN Reject(WithBody(ErrorRes("password", token, "none", 400,
                                         "New password must be at least 6 characters"),
                                "none", "none", newPassword))
           ELSE IF ~ComparePassword(user.password, currentPassword)
           THEN Reject(WithBody(ErrorRes("password", token, "none", 400,
                                         "Current password is incorrect"),
                                "none", "none", newPassword))
           ELSE /\ users' = [users EXCEPT ![auth.user] =
                                UserPreSave([user EXCEPT !.password = newPassword], TRUE)]
                /\ res' = WithBody(OkRes("password", token, "none", 200, NoDoc, <<>>),
                                   "none", "none", newPassword)
                /\ UNCHANGED <<now, doc, ret, convs, reqs, saves, regs>>

\* =========================================================================
\* The specifications
\* =========================================================================
InitConversation ==
    /\ now = 0
    /\ doc = NewConversation("u1", "New Conversation", 0)
    /\ ret = NoRet
    /\ convs = [c \in ConvIds |-> NoDoc]
    /\ reqs = [r \in ReqIds |-> IdleReq]
    /\ res = NoRes
    /\ users = [u \in UserIds |-> NoUser]
    /\ saves = {}
    /\ regs = [g \in RegIds |-> IdleReg]

NextConversation ==
    \/ Tick
    \/ AddMessage
    \/ GetContext

SpecConversation == InitConversation /\ [][NextConversation]_vars

\* ------------------------------------------------------- the stored state
\* A conversation as a finished POST /process-text of user leaves it: the
\* user message pushed and saved at time t, the reply at time t + 1.
SeedConversation(user, t) ==
    AddMessageDoc(
        AddMessageDoc(NewConversation(user, TitleOfMessage("hi"), t),
                      [type |-> "user", content |-> "hi", contentType |-> "text"], t, t),
        [type |-> "ai", content |-> "re1", contentType |-> "text"], t + 1, t + 1)

\* The user whose request left SeedConversation, its save finished.
SeedUser(u) == [RegisteredUser(u) EXCEPT !.stats.messages = 2]

\* SpecRoutes starts from a store that holds u1's conversation c1 and no c2.
InitRoutes ==
    /\ now = 2
    /\ doc = NoDoc
    /\ ret = NoRet
    /\ convs = [c \in ConvIds |-> IF c = "c1" THEN SeedConversation("u1", 0) ELSE NoDoc]
    /\ reqs = [r \in ReqIds |-> IdleReq]
    /\ res = NoRes
    /\ users = [u \in UserIds |-> IF u = "u1" THEN SeedUser(u) ELSE RegisteredUser(u)]
    /\ saves = {}
    /\ regs = [g \in RegIds |-> IdleReg]

NextRoutes ==
    \/ ListConversations
    \/ ReadConversation
    \/ CreateConversation
    \/ UpdateConversation
    \/ ArchiveConversation
    \/ DeleteConversation
    \/ RestoreConversation
    \/ FavoriteConversation
    \/ UserSaveCommit

SpecRoutes == InitRoutes /\ [][NextRoutes]_vars

\* SpecOwner: the conversation routes that write, from the same store.
NextOwner ==
    \/ CreateConversation
    \/ UpdateConversation
    \/ ArchiveConversation
    \/ DeleteConversation
    \/ RestoreConversation
    \/ FavoriteConversation
    \/ UserSaveCommit

SpecOwner == InitRoutes /\ [][NextOwner]_vars

\* SpecAi starts from a store that holds u2's conversation c2 and no c1.
InitAi ==
    /\ now = 2
    /\ doc = NoDoc
    /\ ret = NoRet
    /\ convs = [c \in ConvIds |-> IF c = "c2" THEN SeedConversation("u2", 0) ELSE NoDoc]
    /\ reqs = [r \in ReqIds |-> IdleReq]
    /\ res = NoRes
    /\ users = [u \in UserIds |-> IF u = "u2" THEN SeedUser(u) ELSE RegisteredUser(u)]
    /\ saves = {}
    /\ regs = [g \in RegIds |-> IdleReg]

NextAi ==
    \/ ProcessTextStart
    \/ ProcessVoiceStart
    \/ AiReply
    \/ SaveCommit
    \/ UserSaveCommit

SpecAi == InitAi /\ [][NextAi]_vars

\* SpecAppends: requests of one user that append to the same stored
\* conversation and overlap. Each loads the conversation with findById,
\* pushes its messages on the copy it loaded and starts the saves.
\* POST /process-text with u1's token, a message and conversationId c1.
AppendTextStart ==
    \E r \in DOMAIN reqs :
        /\ reqs[r].pc = "idle"
        /\ AiStart(r, "process-text", "u1", "hi", "c1", "text")

\* POST /process-voice with u1's token, audio data and conversationId c1.
AppendVoiceStart ==
    \E r \in DOMAIN reqs, transcribedText \in Transcriptions :
        /\ reqs[r].pc = "idle"
        /\ AiStart(r, "process-voice", "u1", transcribedText, "c1", "voice")

\* SpecAppends starts from u1's conversation c1 as POST /api/conversation
\* leaves it: stored, with no message. Two requests can be in flight.
InitAppends ==
    /\ now = 2
    /\ doc = NoDoc
    /\ ret = NoRet
    /\ convs = [c \in {"c1"} |-> NewConversation("u1", "New Conversation", 0)]
    /\ reqs = [r \in {1, 2} |-> IdleReq]
    /\ res = NoRes
    /\ users = [u \in UserIds |->
                  IF u = "u1" THEN [RegisteredUser(u) EXCEPT !.stats.conversations = 1]
                  ELSE NoUser]
    /\ saves = {}
    /\ regs = [g \in RegIds |-> IdleReg]

NextAppends ==
    \/ AppendTextStart
    \/ AppendVoiceStart
    \/ AiReply
    \/ SaveCommit
    \/ UserSaveCommit

SpecAppends == InitAppends /\ [][NextAppends]_vars

\* SpecLifecycle: one stored conversation and every operation that writes
\* it, one after the other: addMessage, the four status methods and the
\* $set of PUT /:id.
Archive ==
    /\ doc' = ArchiveDoc(doc)
    /\ UNCHANGED <<now, ret>>
    /\ UNCHANGED OtherVarsConversation

Delete ==
    /\ doc' = DeleteDoc(doc)
    /\ UNCHANGED <<now, ret>>
    /\ UNCHANGED OtherVarsConversation

Restore ==
    /\ doc' = RestoreDoc(doc)
    /\ UNCHANGED <<now, ret>>
    /\ UNCHANGED OtherVarsConversation

ToggleFavorite ==
    /\ doc' = ToggleFavoriteDoc(doc)
    /\ UNCHANGED <<now, ret>>
    /\ UNCHANGED OtherVarsConversation

FindByIdAndUpdate ==
    /\ \E body \in UpdateBodies : doc' = ApplyUpdate(doc, body)
    /\ UNCHANGED <<now, ret>>
    /\ UNCHANGED OtherVarsConversation

NextLifecycle ==
    \/ Tick
    \/ AddMessage
    \/ Archive
    \/ Delete
    \/ Restore
    \/ ToggleFavorite
    \/ FindByIdAndUpdate

SpecLifecycle == InitConversation /\ [][NextLifecycle]_vars

\* SpecStats: updateStats called on the document of one user, each save
\* awaited.
StatKinds == {"conversation", "message", "voice", "usage", "other"}

\* The increment argument: omitted, or a number.
Increments == {[given |-> FALSE, value |-> 0]} \cup [given : {TRUE}, value : 1 .. 2]

UpdateStats ==
    \E type \in StatKinds, increment \in Increments :
        LET by == IF increment.given THEN increment.value ELSE DefaultIncrement
            after == StatsAfter(users["u1"].stats, type, by)
        IN /\ \A f \in DOMAIN after : after[f] <= MaxCount
           /\ users' = [users EXCEPT !["u1"] = UserPreSave([@ EXCEPT !.stats = after], FALSE)]
           /\ ret' = [op |-> "updateStats", type |-> type, increment |-> increment]
           /\ UNCHANGED <<now, doc, convs, reqs, res, saves, regs>>

InitStats ==
    /\ now = 2
    /\ doc = NoDoc
    /\ ret = NoRet
    /\ convs = [c \in ConvIds |-> NoDoc]
    /\ reqs = [r \in ReqIds |-> IdleReq]
    /\ res = NoRes
    /\ users = [u \in UserIds |-> IF u = "u1" THEN RegisteredUser(u) ELSE NoUser]
    /\ saves = {}
    /\ regs = [g \in RegIds |-> IdleReg]

NextStats == UpdateStats

SpecStats == InitStats /\ [][NextStats]_vars

\* SpecCounters: POST /api/conversation requests of one user that overlap.
\* authenticateUser loads the user, the handler awaits conversation.save()
\* and then raises the counter on the user document it loaded.
CounterConvIds == {"c1", "c2", "c3"}
CounterReqIds == {1, 2}

\* POST / up to the await of conversation.save().
CreateStart ==
    \E r \in CounterReqIds, token \in Tokens, title \in Titles :
        LET auth == AuthenticateUser(users, token)
            created == NewConversation(auth.user,
                          IF title = "absent" THEN "New Conversation" ELSE title, now)
        IN /\ reqs[r].pc = "idle"
           /\ IF auth.code # 200
              THEN Reject(ErrorRes("create", token, "none", auth.code, auth.error))
              ELSE /\ FreeIds # {}
                   /\ reqs' = [reqs EXCEPT ![r] =
                         [IdleReq EXCEPT !.pc = "create", !.route = "create",
                                         !.token = token, !.id = NewId,
                                         !.local = created,
                                         !.stats = users[auth.user].stats]]
                   /\ res' = NoRes
                   /\ UNCHANGED <<now, doc, ret, convs, users, saves, regs>>

\* POST / after the save: updateStats('conversation', 1) on req.user, its
\* save not awaited, and the response.
CreateFinish ==
    \E r \in CounterReqIds :
        LET q == reqs[r]
        IN /\ q.pc = "create"
           /\ convs' = [convs EXCEPT ![q.id] = PreSave(q.local, FALSE)]
           /\ saves' = saves \cup {UpdateStatsSave(q.token, q.stats, "conversation", 1)}
           /\ reqs' = [reqs EXCEPT ![r] = IdleReq]
           /\ res' = OkRes("create", q.token, q.id, 201, q.local, <<>>)
           /\ UNCHANGED <<now, doc, ret, users, regs>>

InitCounters ==
    /\ now = 2
    /\ doc = NoDoc
    /\ ret = NoRet
    /\ convs = [c \in CounterConvIds |-> NoDoc]
    /\ reqs = [r \in CounterReqIds |-> IdleReq]
    /\ res = NoRes
    /\ users = [u \in UserIds |-> IF u = "u1" THEN RegisteredUser(u) ELSE NoUser]
    /\ saves = {}
    /\ regs = [g \in RegIds |-> IdleReg]

NextCounters ==
    \/ CreateStart
    \/ CreateFinish
    \/ UserSaveCommit

SpecCounters == InitCounters /\ [][NextCounters]_vars

\* SpecListing: the queries of the model over a store of conversations of
\* two users, as finished requests leave them.
ListConvIds == {"c1", "c2", "c3"}

\* A stored conversation: SeedConversation, archived or not.
ListDocs ==
    {NoDoc} \cup {SeedConversation("u1", t) : t \in 0 .. 1}
            \cup {ArchiveDoc(SeedConversation(u, 0)) : u \in UserIds}
            \cup {SeedConversation("u2", 0)}

\* An option that may be left out.
NumberOptions == {[given |-> FALSE, value |-> 0]} \cup [given : {TRUE}, value : 0 .. 2]
SkipOptions == {[given |-> FALSE, value |-> 0], [given |-> TRUE, value |-> 1]}

\* The options of getUserConversations; "absent" for one left out.
ListOptions ==
    [status : {"absent", "archived"}, limit : NumberOptions,
     skip : SkipOptions, sortOrder : {"absent", "asc"}]

\* The destructuring of options with its defaults, then the query.
GetUserConversationsWith(store, userId, options) ==
    GetUserConversations(store, userId,
        IF options.status = "absent" THEN "active" ELSE options.status,
        IF options.limit.given THEN options.limit.value ELSE DefaultListLimit,
        IF options.skip.given THEN options.skip.value ELSE 0,
        IF options.sortOrder = "absent" THEN "desc" ELSE options.sortOrder)

ListQuery ==
    \E userId \in UserIds, options \in ListOptions :
        \E list \in GetUserConversationsWith(convs, userId, options) :
            /\ ret' = [op |-> "getUserConversations", userId |-> userId,
                       options |-> options, value |-> list]
            /\ UNCHANGED <<now, doc, convs, reqs, res, users, saves, regs>>

InitListing ==
    /\ now = 2
    /\ doc = NoDoc
    /\ ret = NoRet
    /\ convs \in [ListConvIds -> ListDocs]
    /\ reqs = [r \in ReqIds |-> IdleReq]
    /\ res = NoRes
    /\ users = [u \in UserIds |-> SeedUser(u)]
    /\ saves = {}
    /\ regs = [g \in RegIds |-> IdleReg]

NextListing == ListQuery

SpecListing == InitListing /\ [][NextListing]_vars

\* SpecSearch: searchConversations over a store of conversations of two
\* users.
SearchTerms == {"hi", "HI", "h.", "trip"}

\* A conversation that holds one user message, at time t.
OneMessageDoc(user, title, content, t) ==
    AddMessageDoc(NewConversation(user, title, t),
                  [type |-> "user", content |-> content, contentType |-> "text"], t, t)

\* A stored conversation: one a request left, with tags set by PUT /:id,
\* archived, or of the other user.
SearchDocs ==
    {NoDoc,
     OneMessageDoc("u1", "hi", "hi", 0),
     OneMessageDoc("u1", "yo", "yo", 1),
     ApplyUpdate(OneMessageDoc("u1", "yo", "yo", 0),
                 [title |-> "Trip", tags |-> <<"Hike">>, hasTags |-> TRUE,
                  isFavorite |-> "absent", userId |-> "absent"]),
     ArchiveDoc(OneMessageDoc("u1", "hi", "hi", 1)),
     OneMessageDoc("u2", "hi", "hi", 1)}

SearchLimits == {[given |-> FALSE, value |-> 0], [given |-> TRUE, value |-> 1]}

SearchQuery ==
    \E userId \in UserIds, searchTerm \in SearchTerms,
       limit \in SearchLimits, skip \in SkipOptions :
        \E list \in SearchConversations(convs, userId, searchTerm,
                       IF limit.given THEN limit.value ELSE DefaultListLimit,
                       IF skip.given THEN skip.value ELSE 0) :
            /\ ret' = [op |-> "searchConversations", userId |-> userId,
                       searchTerm |-> searchTerm, limit |-> limit, skip |-> skip,
                       value |-> list]
            /\ UNCHANGED <<now, doc, convs, reqs, res, users, saves, regs>>

InitSearch ==
    /\ now = 2
    /\ doc = NoDoc
    /\ ret = NoRet
    /\ convs \in [ListConvIds -> SearchDocs]
    /\ reqs = [r \in ReqIds |-> IdleReq]
    /\ res = NoRes
    /\ users = [u \in UserIds |-> SeedUser(u)]
    /\ saves = {}
    /\ regs = [g \in RegIds |-> IdleReg]

NextSearch == SearchQuery

SpecSearch == InitSearch /\ [][NextSearch]_vars

\* SpecTitle: generateTitle on a conversation that messages of several
\* lengths were appended to.
Content50 == "aaaaaaaaaabbbbbbbbbbccccccccccddddddddddeeeeeeeeee"
Content51 == Content50 \o "f"
Content80 == Content50 \o "ffffffffffgggggggggghhhhhhhhhh"
TitleContents == {"hi", Content50, Content51, Content80}

AppendText ==
    /\ Len(doc.messages) < MaxMsgs
    /\ \E type \in MsgTypes, content \in TitleContents :
          doc' = AddMessageDoc(doc, [type |-> type, content |-> content,
                                     contentType |-> "text"], now, now)
    /\ ret' = [op |-> "addMessage", limit |-> 0, value |-> <<>>]
    /\ UNCHANGED now
    /\ UNCHANGED OtherVarsConversation

GenerateTitleCall ==
    /\ ret' = [op |-> "generateTitle", limit |-> 0, value |-> GenerateTitle(doc)]
    /\ UNCHANGED <<now, doc>>
    /\ UNCHANGED OtherVarsConversation

NextTitle ==
    \/ AppendText
    \/ GenerateTitleCall

SpecTitle == InitConversation /\ [][NextTitle]_vars

\* SpecDuration: calculateDuration on a conversation whose messages were
\* appended at times some milliseconds apart; the clock counts milliseconds.
ElapseSteps == {1500, 10000}

Elapse ==
    /\ now < MaxTime * MsPerSecond
    /\ \E step \in ElapseSteps : now' = now + step
    /\ UNCHANGED <<doc, ret>>
    /\ UNCHANGED OtherVarsConversation

AppendNow ==
    /\ Len(doc.messages) < MaxMsgs
    /\ \E messageData \in MessageData : doc' = AddMessageDoc(doc, messageData, now, now)
    /\ ret' = [op |-> "addMessage", limit |-> 0, value |-> <<>>]
    /\ UNCHANGED now
    /\ UNCHANGED OtherVarsConversation

CalculateDurationCall ==
    /\ ret' = [op |-> "calculateDuration", limit |-> 0, value |-> CalculateDuration(doc)]
    /\ UNCHANGED <<now, doc>>
    /\ UNCHANGED OtherVarsConversation

NextDuration ==
    \/ Elapse
    \/ AppendNow
    \/ CalculateDurationCall

SpecDuration == InitConversation /\ [][NextDuration]_vars

\* GET /api/health
Health ==
    Reject([NoRes EXCEPT !.route = "health", !.code = 200,
                         !.body = {"status", "message", "timestamp", "database"}])

\* SpecRegister starts from an empty users collection.
InitRegister ==
    /\ now = 2
    /\ doc = NoDoc
    /\ ret = NoRet
    /\ convs = [c \in ConvIds |-> NoDoc]
    /\ reqs = [r \in ReqIds |-> IdleReq]
    /\ res = NoRes
    /\ users = [u \in UserIds |-> NoUser]
    /\ saves = {}
    /\ regs = [g \in RegIds |-> IdleReg]

NextRegister ==
    \/ Health
    \/ RegisterStart
    \/ RegisterSave
    \/ Login
    \/ UserSaveCommit

SpecRegister == InitRegister /\ [][NextRegister]_vars

\* SpecUser starts from two registered users, or from one and a token
\* whose user is no longer stored.
InitUser ==
    /\ now = 2
    /\ doc = NoDoc
    /\ ret = NoRet
    /\ convs = [c \in ConvIds |-> NoDoc]
    /\ reqs = [r \in ReqIds |-> IdleReq]
    /\ res = NoRes
    /\ users \in {[u \in UserIds |-> RegisteredUser(u)],
                  [u \in UserIds |-> IF u = "u1" THEN RegisteredUser(u) ELSE NoUser]}
    /\ saves = {}
    /\ regs = [g \in RegIds |-> IdleReg]

NextUser ==
    \/ ReadUser
    \/ UpdateProfile
    \/ UpdatePreferences
    \/ DeleteAccount
    \/ ChangePassword

SpecUser == InitUser /\ [][NextUser]_vars

\* ------------------------------------------------- claims, SpecConversation

\* C1: after every saved append the stats agree with the messages:
\* totalMessages is the number of messages, userMessages + aiMessages is
\* totalMessages, and voiceMessages is the number of voice messages.
StatsAgreeWithMessages ==
    /\ doc.stats.totalMessages = Len(doc.messages)
    /\ doc.stats.userMessages + doc.stats.aiMessages = doc.stats.totalMessages
    /\ doc.stats.voiceMessages =
          Cardinality({i \in 1 .. Len(doc.messages) : doc.messages[i].contentType = "voice"})

\* C1's case: appends of both types and of a voice message have been saved.
StatsAfterAppends ==
    /\ ret.op = "addMessage"
    /\ Len(doc.messages) = MaxMsgs
    /\ doc.stats.userMessages > 0
    /\ doc.stats.aiMessages > 0
    /\ doc.stats.voiceMessages > 0

\* C2: after every saved append lastMessageAt is the timestamp of the last
\* message, and no step moves lastMessageAt to an earlier value.
LastMessageAtFollowsAppends ==
    [][/\ (doc'.messages # <<>> =>
             doc'.lastMessageAt = doc'.messages[Len(doc'.messages)].timestamp)
       /\ doc'.lastMessageAt >= doc.lastMessageAt]_vars

\* C2's case: a second append at a later time than the first, with the
\* clock past the timestamp of the last message.
LastMessageAtMoved ==
    /\ ret.op = "addMessage"
    /\ Len(doc.messages) >= 2
    /\ doc.lastMessageAt > doc.messages[1].timestamp
    /\ now > doc.lastMessageAt

\* C3: getContextMessages(limit) returns the min(limit, len) most recent
\* messages in their order (and leaves the document unchanged: GetContext
\* changes neither doc nor now).
ContextIsLastMinLimit ==
    ret.op = "getContextMessages" =>
        LET n == Len(doc.messages)
            k == Min(ret.limit, n)
        IN /\ Len(ret.value) = k
           /\ ret.value = SubSeq(doc.messages, n - k + 1, n)

\* ------------------------------------------------------ claims, SpecAi

AiRoutes == {"process-text", "process-voice"}

\* The step answered a caller with a valid token and a valid body who named
\* a stored conversation of another user.
NonOwnerAnswered ==
    /\ res.token \in UserIds
    /\ res.id \in ConvIds
    /\ res.code # 400
    /\ convs[res.id] # NoDoc
    /\ convs[res.id].userId # res.token

\* C4: a caller who does not own the conversation is answered 403, and the
\* stored conversations stay as they were.
NonOwnerGets403 ==
    [][NonOwnerAnswered' => (res'.code = 403 /\ convs' = convs)]_vars

\* Both of the last two messages of answered are stored.
StoredHasExchange(stored, answered) ==
    /\ stored # NoDoc
    /\ Len(answered.messages) >= 2
    /\ \A k \in {Len(answered.messages) - 1, Len(answered.messages)} :
          \E i \in 1 .. Len(stored.messages) : stored.messages[i] = answered.messages[k]

\* C6: when an ai route answers with success the stored conversation holds
\* the user message and the reply of the request, and a step that answers
\* with an error changes nothing stored and starts no save.
AiAnswersAreAtomic ==
    [][/\ (res'.route \in AiRoutes /\ res'.success) =>
             StoredHasExchange(convs'[res'.id], res'.conversation)
       /\ res'.code >= 400 =>
             (convs' = convs /\ users' = users /\ saves' = saves /\ reqs' = reqs)]_vars

\* -------------------------------------------------- claims, SpecRoutes

StatusRoutes == {"archive", "delete", "restore"}

TargetStatus(route) ==
    IF route = "archive" THEN "archived"
    ELSE IF route = "delete" THEN "deleted"
    ELSE "active"

\* C9: archive, delete and restore by the owner succeed from every prior
\* status and leave the status at the target of the route: after any
\* sequence of them the status is the target of the last one.
StatusIsTargetOfLast ==
    (/\ res.route \in StatusRoutes
     /\ res.token \in UserIds
     /\ convs[res.id] # NoDoc
     /\ convs[res.id].userId = res.token)
    => (res.success /\ convs[res.id].status = TargetStatus(res.route))

\* C9's case: a restore of a conversation that was deleted.
RestoredFromDeleted ==
    /\ res.route = "restore"
    /\ res.success
    /\ res.was = "deleted"
    /\ convs[res.id].status = "active"

\* C10: a delete changes the status of the conversation to 'deleted' and
\* nothing else of it or of another conversation; GET /:id still returns a
\* stored conversation to its owner whatever its status; the listing with
\* the default status filter returns active conversations only.
DeleteIsSoft ==
    [][/\ (res'.route = "delete" /\ res'.success) =>
             /\ convs[res'.id] # NoDoc
             /\ convs' = [convs EXCEPT ![res'.id] = [@ EXCEPT !.status = "deleted"]]
       /\ (/\ res'.route = "get"
           /\ res'.token \in UserIds
           /\ convs'[res'.id] # NoDoc
           /\ convs'[res'.id].userId = res'.token) =>
             (res'.success /\ res'.code = 200 /\ res'.conversation = convs'[res'.id])
       /\ (res'.route = "list" /\ res'.success /\ res'.status = "absent") =>
             \A i \in 1 .. Len(res'.conversations) :
                 convs'[res'.conversations[i]].status = "active"]_vars

\* C10's case: the owner reads a deleted conversation, which still holds
\* its messages.
DeletedStillRead ==
    /\ res.route = "get"
    /\ res.success
    /\ res.conversation.status = "deleted"
    /\ Len(res.conversation.messages) = 2
    /\ res.conversation.stats.totalMessages = 2

\* ---------------------------------------------------- claims, SpecUser

OpenRoutes == {"none", "register", "login", "health"}

\* C5: a request to a token-protected route that carries no token or a
\* token that does not verify is answered 401 and changes nothing stored.
BadTokenGets401 ==
    [][(res'.route \notin OpenRoutes /\ res'.token \in {"none", "bad"}) =>
           (res'.code = 401 /\ users' = users /\ convs' = convs /\ saves' = saves)]_vars

\* ------------------------------------------------ claims, SpecRegister

\* The answer to a failed login: nothing in it depends on the stored users.
LoginRefusal(email, password) ==
    WithBody(ErrorRes("login", "none", "none", 401, "Invalid credentials"),
             "none", email, password)

\* C7: a login with an email and a password that fails is answered alike
\* whether some account has the email or none has: 401 'Invalid
\* credentials', the answer fixed by the request alone, nothing stored or
\* started.
LoginFailuresAlike ==
    [][(res'.route = "login" /\ ~res'.success /\ res'.email # "" /\ res'.password # "") =>
           /\ res' = LoginRefusal(res'.email, res'.password)
           /\ users' = users
           /\ saves' = saves]_vars

\* C7's case: a login refused for its password, the email being that of a
\* stored account.
WrongPasswordRefused ==
    /\ res.route = "login"
    /\ res.code = 401
    /\ \E u \in UserIds : users[u] # NoUser /\ users[u].email = res.email

UniqueUsers ==
    \A u, v \in UserIds :
        (u # v /\ users[u] # NoUser /\ users[v] # NoUser) =>
            (users[u].email # users[v].email /\ users[u].username # users[v].username)

\* C8: a registration answered while an account has its email or its
\* username is answered 400 and stores nothing, and no two stored users
\* ever share an email or a username.
DuplicateRegistrationIs400 ==
    [][/\ UniqueUsers'
       /\ (res'.route = "register" /\ UserExists(users, res'.username, res'.email)) =>
             (res'.code = 400 /\ users' = users)]_vars

\* ------------------------------------------------ claims, SpecLifecycle

IsPrefix(s, t) == Len(s) <= Len(t) /\ SubSeq(t, 1, Len(s)) = s

\* C11: the messages before any operation on a conversation are a prefix of
\* the messages after it: none is removed, replaced or reordered.
MessagesAppendOnly ==
    [][IsPrefix(doc.messages, doc'.messages)]_vars

\* C11's case: a conversation with messages that was appended to, updated,
\* made a favourite and deleted.
OperatedOnWithMessages ==
    /\ Len(doc.messages) >= 2
    /\ doc.messages[1].timestamp < doc.messages[2].timestamp
    /\ doc.status = "deleted"
    /\ doc.title = "Trip"
    /\ doc.isFavorite

\* ---------------------------------------------------- claims, SpecStats

\* The counter the claim names for a kind.
CounterOf(kind) ==
    CASE kind = "conversation" -> "conversations"
      [] kind = "message" -> "messages"
      [] kind = "voice" -> "voiceInteractions"
      [] kind = "usage" -> "totalUsageTime"
      [] OTHER -> "no counter"

\* C12: updateStats(kind, delta) raises the counter kind names by delta, by
\* 1 when delta is omitted, and leaves the other counters as they were; a
\* kind that names no counter changes none.
UpdateStatsRaisesOneCounter ==
    [][ret'.op = "updateStats" =>
          \A c \in {"conversations", "messages", "voiceInteractions", "totalUsageTime"} :
              users'["u1"].stats[c] =
                  users["u1"].stats[c] +
                  (IF c # CounterOf(ret'.type) THEN 0
                   ELSE IF ret'.increment.given THEN ret'.increment.value ELSE 1)]_vars

\* C12's case: updateStats('usage') with the increment omitted has raised
\* totalUsageTime, the other counters raised before it.
UsageRaisedByDefault ==
    /\ ret.op = "updateStats"
    /\ ret.type = "usage"
    /\ ~ret.increment.given
    /\ users["u1"].stats.totalUsageTime = 1
    /\ users["u1"].stats.voiceInteractions = 2

\* ------------------------------------------------- claims, SpecCounters

\* C13: no step leaves a counter of a stored user lower than it was.
CountersNeverDecrease ==
    [][\A u \in UserIds :
          users[u] # NoUser =>
              \A c \in DOMAIN users[u].stats : users'[u].stats[c] >= users[u].stats[c]]_vars

\* ----------------------------------------- claims, SpecUser (passwords)

\* The plaintexts a request can supply.
Plaintexts == (Passwords \cup LoginPasswords \cup CurrentPasswords \cup NewPasswords) \ {""}

\* A stored value that is the hash of a plaintext: not a plaintext, and not
\* the hash of a hash.
StoredAsHash(stored) ==
    /\ stored \notin Plaintexts
    /\ \E plain \in Plaintexts : stored = Hash(plain)

\* C14: the stored password of every user is the hash of a plaintext, from
\* registration on; a successful password change stores the hash of the new
\* password supplied, and no other request changes a stored password.
PasswordsStoredHashed ==
    /\ \A u \in UserIds : users[u] # NoUser => StoredAsHash(users[u].password)
    /\ [][/\ \A u \in UserIds : users'[u] # NoUser => StoredAsHash(users'[u].password)
          /\ (res'.route = "password" /\ res'.success) =>
                users'[res'.token].password = Hash(res'.password)
          /\ ~(res'.route = "password" /\ res'.success) =>
                \A u \in UserIds :
                    users[u] # NoUser => users'[u].password = users[u].password]_vars

\* C14's case: a user changed the password and then deactivated the
\* account, which saves the document again.
DeactivatedAfterPasswordChange ==
    /\ res.route = "account"
    /\ res.success
    /\ users[res.token].password = Hash("secret2")
    /\ ~users[res.token].isActive

\* ------------------------------------- claims, SpecRegister (responses)

\* C15: every response sent is a JSON object with a field named success.
EveryResponseHasSuccess ==
    res.route # "none" => "success" \in res.body

\* -------------------------------------------------- claims, SpecListing

\* The conversations of owner with the status the options filter by.
Matching(owner, options) ==
    {c \in DOMAIN convs :
        /\ convs[c] # NoDoc
        /\ convs[c].userId = owner
        /\ convs[c].status = (IF options.status = "absent" THEN "active" ELSE options.status)}

\* C16: getUserConversations returns conversations of the owner with the
\* status of the filter only, each once, ordered by lastMessageAt
\* (descending unless ascending is asked for), the first skip of them
\* skipped and at most limit of them returned.
ListingIsOwnersPage ==
    ret.op = "getUserConversations" =>
        LET list == ret.value
            limit == IF ret.options.limit.given THEN ret.options.limit.value ELSE 20
            skip == IF ret.options.skip.given THEN ret.options.skip.value ELSE 0
            matching == Matching(ret.userId, ret.options)
        IN /\ \A i \in 1 .. Len(list) : list[i] \in matching
           /\ \A i, j \in 1 .. Len(list) :
                 i < j => /\ list[i] # list[j]
                          /\ IF ret.options.sortOrder = "asc"
                             THEN convs[list[i]].lastMessageAt <= convs[list[j]].lastMessageAt
                             ELSE convs[list[i]].lastMessageAt >= convs[list[j]].lastMessageAt
           /\ Len(list) = Min(limit, Max(0, Cardinality(matching) - skip))

\* --------------------------------------------------- claims, SpecSearch

\* term occurs in text as a substring, the case of letters ignored.
OccursIn(term, text) ==
    \E k \in 1 .. Len(text) - Len(term) + 1 :
        \A i \in 1 .. Len(term) :
            Lower(SubSeq(term, i, i)) = Lower(SubSeq(text, k + i - 1, k + i - 1))

\* The active conversations of owner in which term occurs in the title, in
\* the content of a message or in a tag.
Containing(owner, term) ==
    {c \in DOMAIN convs :
        /\ convs[c] # NoDoc
        /\ convs[c].userId = owner
        /\ convs[c].status = "active"
        /\ \/ OccursIn(term, convs[c].title)
           \/ \E i \in 1 .. Len(convs[c].messages) : OccursIn(term, convs[c].messages[i].content)
           \/ \E i \in 1 .. Len(convs[c].tags) : OccursIn(term, convs[c].tags[i])}

\* C17: searchConversations returns the active conversations of the owner
\* in which the term occurs, and no other, ordered by lastMessageAt
\* descending, the first skip of them skipped and at most limit returned.
SearchIsSubstringSearch ==
    ret.op = "searchConversations" =>
        LET list == ret.value
            limit == IF ret.limit.given THEN ret.limit.value ELSE 20
            skip == IF ret.skip.given THEN ret.skip.value ELSE 0
            containing == Containing(ret.userId, ret.searchTerm)
        IN /\ \A i \in 1 .. Len(list) : list[i] \in containing
           /\ \A i, j \in 1 .. Len(list) :
                 i < j => /\ list[i] # list[j]
                          /\ convs[list[i]].lastMessageAt >= convs[list[j]].lastMessageAt
           /\ Len(list) = Min(limit, Max(0, Cardinality(containing) - skip))

\* ---------------------------------------------------- claims, SpecTitle

\* The positions of the messages of type 'user'.
UserPositions == {i \in 1 .. Len(doc.messages) : doc.messages[i].type = "user"}

\* C18: generateTitle returns 'New Conversation' when no message is of type
\* 'user'; otherwise the content of the first such message, whole when it
\* has at most 50 characters and else its first 50 characters and '...',
\* 53 characters; the conversation stays as it was.
TitleIsFirstUserContent ==
    [][ret'.op = "generateTitle" =>
          /\ doc' = doc
          /\ UserPositions = {} => ret'.value = "New Conversation"
          /\ \A i \in UserPositions :
                (\A j \in UserPositions : i <= j) =>
                    LET content == doc.messages[i].content
                    IN IF Len(content) <= 50
                       THEN ret'.value = content
                       ELSE /\ Len(ret'.value) = 53
                            /\ SubSeq(ret'.value, 1, 50) = SubSeq(content, 1, 50)
                            /\ SubSeq(ret'.value, 51, 53) = "..."]_vars

\* C18's case: the title of a conversation whose first message is an ai
\* message and whose first user message has 80 characters.
LongTitleCut ==
    /\ ret.op = "generateTitle"
    /\ Len(doc.messages) >= 2
    /\ doc.messages[1].type = "ai"
    /\ doc.messages[2].type = "user"
    /\ Len(doc.messages[2].content) = 80
    /\ Len(ret.value) = 53

\* ------------------------------------------------- claims, SpecDuration

\* C19: calculateDuration returns 0 for a conversation of fewer than two
\* messages, and else the time from the timestamp of the first message to
\* that of the last in seconds, a thousand milliseconds each; the
\* conversation stays as it was.
DurationIsEndToEnd ==
    [][ret'.op = "calculateDuration" =>
          LET n == Len(doc.messages)
              value == ret'.value
          IN /\ doc' = doc
             /\ value.thousandths \in 0 .. 999
             /\ n < 2 => (value.seconds = 0 /\ value.thousandths = 0)
             /\ n >= 2 =>
                   value.seconds * 1000 + value.thousandths =
                       doc.messages[n].timestamp - doc.messages[1].timestamp]_vars

\* C19's case: three messages, the last 10 seconds after the first and the
\* second between them: the duration is 10.
TenSecondsApart ==
    /\ ret.op = "calculateDuration"
    /\ Len(doc.messages) = 3
    /\ doc.messages[2].timestamp = doc.messages[1].timestamp
    /\ doc.messages[3].timestamp = doc.messages[1].timestamp + 10000
    /\ ret.value = [seconds |-> 10, thousandths |-> 0]

\* ---------------------------------------------------- claims, SpecOwner

\* C20: a stored conversation stays stored with the userId it has: no
\* request, of its owner or of another user, changes the owner.
OwnerNeverChanges ==
    [][\A c \in DOMAIN convs :
          convs[c] # NoDoc => (convs'[c] # NoDoc /\ convs'[c].userId = convs[c].userId)]_vars

\* C20's case: the owner's PUT /:id has updated the conversation, which is
\* still the owner's.
UpdatedStillOwned ==
    /\ res.route = "update"
    /\ res.success
    /\ convs[res.id].title = "Trip"
    /\ convs[res.id].userId = res.token

\* -------------------------------------------------- claims, SpecAppends

\* No request is running and no save of a conversation is under way.
AppendsFinished == \A r \in DOMAIN reqs : reqs[r] = IdleReq

\* C21: once the requests that appended to a conversation have finished,
\* the stored stats are the counts of the stored messages: totalMessages
\* their number, userMessages and aiMessages the numbers of user and ai
\* messages, voiceMessages the number of voice messages.
StatsAgreeAfterConcurrentAppends ==
    AppendsFinished =>
        \A c \in DOMAIN convs :
            convs[c] # NoDoc => convs[c].stats = RecomputedStats(convs[c].messages)

====
